---- MODULE Spec2Model ----
(***************************************************************************)
(* Model of app.py, the CoachHub forecast dashboard: one Streamlit script  *)
(* that loads a sheet of opportunities, filters it, evaluates the insight  *)
(* rules, computes the summary metrics and three aggregate views, and      *)
(* finally rewrites percent and currency columns as display strings.       *)
(* Streamlit re-executes the whole script on every widget interaction.     *)
(*                                                                         *)
(* Encoding.  Text that the code trims or searches (Forecast Category,     *)
(* Model Deal Strength) is a sequence of tokens, a blank being the token   *)
(* " ".  A numeric cell is [kind, v, text]: kind "num" with value v,       *)
(* kind "nan" (pandas NaN), or kind "str" once the cell has been replaced  *)
(* by a display string.  Model Weighting is held in hundredths (0.8 is     *)
(* 80), dates are month numbers counted from January 2024.  A float        *)
(* produced by a division is [kind, num, den] with kind "fin", "inf" or    *)
(* "nan".                                                                  *)
(***************************************************************************)
EXTENDS Integers, Sequences, FiniteSets, TLC

VARIABLES sheet, hasQuarterCol, confidence_threshold, selected_categories,
          selected_strengths, currency_symbol, now, pc, err, data,
          insights, shown, evalData, kpi, cat_qtr, quarter_totals,
          cat_comp, percent, labels, rep_cat, prevRun

vars == <<sheet, hasQuarterCol, confidence_threshold, selected_categories,
          selected_strengths, currency_symbol, now, pc, err, data,
          insights, shown, evalData, kpi, cat_qtr, quarter_totals,
          cat_comp, percent, labels, rep_cat, prevRun>>

(* ---------------------------------------------------------------------- *)
(* Bounds of the model                                                     *)
(* ---------------------------------------------------------------------- *)
MaxRecs == 2
MaxNow == 2

(* ---------------------------------------------------------------------- *)
(* Vocabulary                                                              *)
(* ---------------------------------------------------------------------- *)
Pipeline == <<"Pipeline">>
BestCase == <<"Best", " ", "Case">>
Probable == <<"Probable">>
Commit == <<"Commit">>
forecast_categories == <<Pipeline, BestCase, Probable, Commit>>

Weak == <<"Weak">>
Moderate == <<"Moderate">>
Strong == <<"Strong">>
model_strengths == <<Weak, Moderate, Strong>>

currency_symbol_map == {"$", "€"}

MsgHighConfidence == "high-confidence"
MsgPipelineHeavy == "pipeline-heavy"
MsgFarFuture == "far-future-close-dates"
MsgNoAnomalies == "no-anomalies"

HighConfidenceLimit == 80
FarFutureMonths == 6
Thousand == 1000

Range(s) == {s[i] : i \in 1..Len(s)}

(* ---------------------------------------------------------------------- *)
(* Cells                                                                   *)
(* ---------------------------------------------------------------------- *)
Num(n) == [kind |-> "num", v |-> n, text |-> ""]
NaN == [kind |-> "nan", v |-> 0, text |-> ""]
Str(t) == [kind |-> "str", v |-> 0, text |-> t]

Txt(s) == [na |-> FALSE, s |-> s]
NoTxt == [na |-> TRUE, s |-> <<>>]

Lbl(t) == [na |-> FALSE, t |-> t]
NoLbl == [na |-> TRUE, t |-> ""]

DateCell(m) == [kind |-> "date", m |-> m]
BlankCell == [kind |-> "blank", m |-> 0]
TextCell == [kind |-> "text", m |-> 0]

(* ---------------------------------------------------------------------- *)
(* The rows a sheet may hold                                               *)
(* ---------------------------------------------------------------------- *)
Row(w, c, s, d, o, p, a) ==
    [w |-> w, cat |-> c, strength |-> s, close |-> d, owner |-> o,
     potential |-> p, amount |-> a]

SheetRows ==
    { Row(Num(90), Txt(Pipeline), Txt(Strong), DateCell(120), Lbl("Ann"),
          Num(1000), Num(100)),
      Row(Num(80), Txt(Commit), Txt(<<" ", "Strong", " ">>), DateCell(8),
          NoLbl, Num(0), Num(100)),
      Row(Num(90), Txt(<<"Pipeline", " ", "Late">>), Txt(Weak), DateCell(8),
          Lbl("Bob"), Num(1000), Num(500)),
      Row(Num(90), Txt(Commit), Txt(Weak), BlankCell, Lbl("Bob"),
          Num(1), Num(20)),
      Row(NaN, Txt(Pipeline), NoTxt, DateCell(8), Lbl("Ann"),
          Num(1000), Num(500)),
      Row(Num(80), Txt(Pipeline), Txt(Strong), TextCell, Lbl("Ann"),
          Num(1000), Num(900)),
      Row(Num(90), NoTxt, Txt(Strong), DateCell(8), Lbl("Bob"),
          Num(1000), Num(500)) }

Sheets == UNION {[1..n -> SheetRows] : n \in 0..MaxRecs}

Thresholds == {0, 85}
CategoryChoices == {Range(forecast_categories), {Commit}, {}}
StrengthChoices == {Range(model_strengths), {Strong}}

(* ---------------------------------------------------------------------- *)
(* String functions of pandas                                              *)
(* ---------------------------------------------------------------------- *)
RECURSIVE LStrip(_)
LStrip(s) == IF s # <<>> /\ Head(s) = " " THEN LStrip(Tail(s)) ELSE s

RECURSIVE RStrip(_)
RStrip(s) ==
    IF s # <<>> /\ s[Len(s)] = " " THEN RStrip(SubSeq(s, 1, Len(s) - 1))
    ELSE s

\* Series.str.strip on one cell: NaN stays NaN
Strip(c) == IF c.na THEN c ELSE Txt(RStrip(LStrip(c.s)))

\* Series.isin on one cell: NaN is in no list of strings
IsIn(c, values) == ~c.na /\ c.s \in values

\* Series.str.contains on one (present) cell: pat occurs in the text
Contains(s, pat) ==
    \E i \in 1..(Len(s) - Len(pat) + 1) : SubSeq(s, i, i + Len(pat) - 1) = pat

\* dtype of a text column as read_excel infers it: a column whose cells are
\* all blank is float64, any other (and that of a sheet without rows) object
TextDtype(rows, col) ==
    IF rows = <<>> \/ \E i \in 1..Len(rows) : ~rows[i][col].na
    THEN "object" ELSE "float64"

(* ---------------------------------------------------------------------- *)
(* Quarter labels                                                          *)
(* ---------------------------------------------------------------------- *)
\* Period("Q") of a month number, as text: "2024Q3"
QuarterLabel(m) ==
    ToString(2024 + (m \div 12)) \o "Q" \o ToString(((m % 12) \div 3) + 1)

\* Period NaT as text
NaTLabel == "NaT"

\* to_datetime(errors="coerce") on one cell
ToDatetime(c) == IF c.kind = "date" THEN c ELSE BlankCell

\* dt.to_period("Q").astype(str) on one cell
PeriodStr(c) ==
    IF c.kind = "date" THEN Lbl(QuarterLabel(c.m)) ELSE Lbl(NaTLabel)

\* the Quarter cell of a sheet that carries its own Quarter column
SheetQuarter(c) == IF c.kind = "date" THEN Lbl(QuarterLabel(c.m)) ELSE NoLbl

(* ---------------------------------------------------------------------- *)
(* Load data and ensure 'Quarter' exists                                   *)
(* ---------------------------------------------------------------------- *)
LoadedRow(r, hasQ) ==
    [w |-> r.w, cat |-> r.cat, strength |-> r.strength,
     close |-> IF hasQ THEN r.close ELSE ToDatetime(r.close),
     quarter |-> IF hasQ THEN SheetQuarter(r.close) ELSE PeriodStr(r.close),
     owner |-> r.owner, potential |-> r.potential, amount |-> r.amount]

Frame(rows, dcat, dstrength) ==
    [rows |-> rows, dcat |-> dcat, dstrength |-> dstrength]

load_data(sh, hasQ) ==
    Frame([i \in 1..Len(sh) |-> LoadedRow(sh[i], hasQ)],
          TextDtype(sh, "cat"), TextDtype(sh, "strength"))

EmptyFrame == Frame(<<>>, "object", "object")

(* ---------------------------------------------------------------------- *)
(* Apply filters                                                           *)
(* ---------------------------------------------------------------------- *)
\* NaN >= threshold is False
WeightingGE(c, threshold) == c.kind = "num" /\ c.v >= threshold

Keep(r, threshold, cats, strengths) ==
    /\ WeightingGE(r.w, threshold)
    /\ IsIn(r.cat, cats)
    /\ IsIn(Strip(r.strength), strengths)

RECURSIVE SelectRows(_, _, _, _)
SelectRows(rows, threshold, cats, strengths) ==
    IF rows = <<>> THEN <<>>
    ELSE LET rest == SelectRows(Tail(rows), threshold, cats, strengths)
         IN IF Keep(Head(rows), threshold, cats, strengths)
            THEN <<Head(rows)>> \o rest ELSE rest

ApplyFiltersFrame(df, threshold, cats, strengths) ==
    Frame(SelectRows(df.rows, threshold, cats, strengths),
          df.dcat, df.dstrength)

(* ---------------------------------------------------------------------- *)
(* AI Insights                                                             *)
(* ---------------------------------------------------------------------- *)
Max(S) == CHOOSE x \in S : \A y \in S : y <= x

\* Series.max() of Model Weighting: NaN cells are skipped, NaN when none is left
MaxWeighting(rows) ==
    LET present == {rows[i].w.v : i \in {j \in 1..Len(rows) : rows[j].w.kind = "num"}}
    IN IF present = {} THEN NaN ELSE Num(Max(present))

\* Series.max() of Close Date: NaT cells are skipped, NaT when none is left
MaxCloseDate(rows) ==
    LET present == {rows[i].close.m : i \in {j \in 1..Len(rows) : rows[j].close.kind = "date"}}
    IN IF present = {} THEN BlankCell ELSE DateCell(Max(present))

\* str.contains("Pipeline").sum()
PipelineCount(rows) ==
    Cardinality({i \in 1..Len(rows) :
                    ~rows[i].cat.na /\ Contains(rows[i].cat.s, Pipeline)})

\* data["Model Weighting"].max() > 0.8
HighConfidence(rows) ==
    LET m == MaxWeighting(rows)
    IN m.kind = "num" /\ m.v > HighConfidenceLimit

\* the same rule with the comparison weakened to >=
PipelineHeavyGE(rows) == 2 * PipelineCount(rows) >= Len(rows)

\* str.contains("Pipeline").sum() > len(data) / 2
PipelineHeavy(rows) == 2 * PipelineCount(rows) > Len(rows)

\* the same rule with the comparison turned round
FarFutureLT(rows, t) ==
    LET m == MaxCloseDate(rows)
    IN m.kind = "date" /\ m.m < t + FarFutureMonths

\* data["Close Date"].max() > pd.Timestamp.now() + pd.DateOffset(months=6)
FarFuture(rows, t) ==
    LET m == MaxCloseDate(rows)
    IN m.kind = "date" /\ m.m > t + FarFutureMonths

InsightList(rows, t) ==
    (IF HighConfidence(rows) THEN <<MsgHighConfidence>> ELSE <<>>)
    \o (IF PipelineHeavy(rows) THEN <<MsgPipelineHeavy>> ELSE <<>>)
    \o (IF FarFuture(rows, t) THEN <<MsgFarFuture>> ELSE <<>>)

\* what st.write puts on the page
Written(ins) == IF ins # <<>> THEN ins ELSE <<MsgNoAnomalies>>

(* ---------------------------------------------------------------------- *)
(* Floats and display strings                                              *)
(* ---------------------------------------------------------------------- *)
Fin(n, d) == [kind |-> "fin", num |-> n, den |-> d]
FNaN == [kind |-> "nan", num |-> 0, den |-> 1]
FInf == [kind |-> "inf", num |-> 0, den |-> 1]

\* x / k for a positive integer k
DivBy(x, k) == IF x.kind = "fin" THEN Fin(x.num, x.den * k) ELSE x

\* x * k for a positive integer k
MulBy(x, k) == IF x.kind = "fin" THEN Fin(x.num * k, x.den) ELSE x

\* a / b on non-negative floats as numpy divides: 0/0 is NaN, x/0 is inf
FDiv(a, b) ==
    IF a.kind # "fin" \/ b.kind # "fin" THEN FNaN
    ELSE IF b.num = 0 THEN (IF a.num = 0 THEN FNaN ELSE FInf)
    ELSE Fin(a.num * b.den, a.den * b.num)

\* Series.replace([inf, -inf], nan) on one value
ReplaceInf(x) == IF x.kind = "inf" THEN FNaN ELSE x

\* DataFrame.fillna(0) on one value
FillNa0(x) == IF x.kind = "nan" THEN Fin(0, 1) ELSE x

Pad3(k) ==
    IF k < 10 THEN "00" \o ToString(k)
    ELSE IF k < 100 THEN "0" \o ToString(k) ELSE ToString(k)

\* format spec ",.0f" on a non-negative whole number
RECURSIVE Grouped(_)
Grouped(n) ==
    IF n < Thousand THEN ToString(n)
    ELSE Grouped(n \div Thousand) \o "," \o Pad3(n % Thousand)

\* f"{currency_symbol}{x:,.0f}"
FormatCurrency(c, symbol) ==
    IF c.kind = "num" THEN symbol \o Grouped(c.v) ELSE symbol \o "nan"

\* (col * 100).round(1).astype(str) + "%", the cell being held in hundredths
FormatPercent(c) ==
    IF c.kind = "num" THEN ToString(c.v) \o ".0%" ELSE "nan%"

\* round-half-even of num/den to a whole number, as the format spec ".0f"
RoundHalfEven(num, den) ==
    LET q == num \div den
        r == num % den
    IN IF 2 * r < den THEN q
       ELSE IF 2 * r > den THEN q + 1
       ELSE IF q % 2 = 0 THEN q ELSE q + 1

\* f"{v:.0f}%"
PercentLabel(x) ==
    IF x.kind = "fin" THEN ToString(RoundHalfEven(x.num, x.den)) \o "%"
    ELSE IF x.kind = "inf" THEN "inf%" ELSE "nan%"

(* ---------------------------------------------------------------------- *)
(* Grouping                                                                *)
(* ---------------------------------------------------------------------- *)
MaxQuarterIndex == 43

\* The labels the model can meet, in the lexical order pandas sorts them in:
\* "YYYYQn" labels are chronological, digits sort before capital letters
Lexicon ==
    [k \in 1..(MaxQuarterIndex + 1) |-> QuarterLabel(3 * (k - 1))]
    \o <<"Ann", "Bob", NaTLabel>>

LexRank(t) == CHOOSE k \in 1..Len(Lexicon) : Lexicon[k] = t

\* the sorted index a groupby or pivot builds from a set of keys
RECURSIVE SortedKeys(_)
SortedKeys(S) ==
    IF S = {} THEN <<>>
    ELSE LET lo == CHOOSE t \in S : \A u \in S : LexRank(t) <= LexRank(u)
         IN <<lo>> \o SortedKeys(S \ {lo})

\* a sum that takes the first row of the group only
SumFirstOnly(rows, col, I) ==
    IF I = {} THEN 0 ELSE rows[CHOOSE i \in I : \A j \in I : i <= j][col].v

\* sum of a numeric column over the rows numbered in I
RECURSIVE SumOver(_, _, _)
SumOver(rows, col, I) ==
    IF I = {} THEN 0
    ELSE LET i == CHOOSE j \in I : TRUE
         IN rows[i][col].v + SumOver(rows, col, I \ {i})

Rows(df) == 1..Len(df.rows)

\* Series.sum() of a whole column
ColumnSum(df, col) == SumOver(df.rows, col, Rows(df))

(* ---------------------------------------------------------------------- *)
(* Chart 1: Model Amount By Category & Quarter                             *)
(* ---------------------------------------------------------------------- *)
\* rows a groupby on Forecast Category and Quarter keeps: NaN keys are dropped
CatQtrRows(df) ==
    {i \in Rows(df) : ~df.rows[i].cat.na /\ ~df.rows[i].quarter.na}

CatQtr(df) ==
    LET kept == CatQtrRows(df)
        present == {df.rows[i].cat.s : i \in kept}
        quarters == SortedKeys({df.rows[i].quarter.t : i \in kept})
        \* groupby(...).sum().unstack(fill_value=0)
        unstacked(c, q) ==
            Fin(SumOver(df.rows, "amount",
                        {i \in kept : df.rows[i].cat.s = c
                                      /\ df.rows[i].quarter.t = q}), 1)
        \* .reindex([...]): a label not in the index gives a row of NaN
        reindexed(c, q) == IF c \in present THEN unstacked(c, q) ELSE FNaN
    IN [index |-> forecast_categories,
        columns |-> quarters,
        cell |-> [c \in Range(forecast_categories), q \in Range(quarters)
                    |-> DivBy(reindexed(c, q), Thousand)]]

\* data.groupby("Quarter")["Model Amount"].sum().reindex(quarters).fillna(0).div(1000)
QuarterTotals(df, quarters) ==
    LET kept == {i \in Rows(df) : ~df.rows[i].quarter.na}
        present == {df.rows[i].quarter.t : i \in kept}
        total(q) ==
            IF q \in present
            THEN Fin(SumOver(df.rows, "amount",
                             {i \in kept : df.rows[i].quarter.t = q}), 1)
            ELSE FNaN
    IN [q \in Range(quarters) |-> DivBy(FillNa0(total(q)), Thousand)]

(* ---------------------------------------------------------------------- *)
(* Chart 2: Potential Amount vs Model Amount                               *)
(* ---------------------------------------------------------------------- *)
CatComp(df) ==
    LET kept == {i \in Rows(df) : ~df.rows[i].cat.na}
        present == {df.rows[i].cat.s : i \in kept}
        summed(c, col) ==
            IF c \in present
            THEN Fin(SumOver(df.rows, col, {i \in kept : df.rows[i].cat.s = c}), 1)
            ELSE FNaN
    IN [index |-> forecast_categories,
        cell |-> [c \in Range(forecast_categories) |->
                    [potential |-> DivBy(FillNa0(summed(c, "potential")), Thousand),
                     amount |-> DivBy(FillNa0(summed(c, "amount")), Thousand)]]]

\* (cat_comp["Model Amount"] / cat_comp["Potential Amount"]).replace(inf, nan) * 100
Percent(comp) ==
    [c \in Range(comp.index) |->
        MulBy(ReplaceInf(FDiv(comp.cell[c].amount, comp.cell[c].potential)), 100)]

\* the text drawn above each point of the percentage line
PercentLabels(pct, index) == [i \in 1..Len(index) |-> PercentLabel(pct[index[i]])]

(* ---------------------------------------------------------------------- *)
(* Chart 3: Model Amount by Sales Rep and Category                         *)
(* ---------------------------------------------------------------------- *)
\* rows a pivot_table on Opportunity Owner and Forecast Category keeps
RepCatRows(df) ==
    {i \in Rows(df) : ~df.rows[i].owner.na /\ ~df.rows[i].cat.na}

RepCat(df) ==
    LET kept == RepCatRows(df)
        owners == SortedKeys({df.rows[i].owner.t : i \in kept})
        present == {df.rows[i].cat.s : i \in kept}
        cellRows(o, c) ==
            {i \in kept : df.rows[i].owner.t = o /\ df.rows[i].cat.s = c}
        pivot(o, c) ==
            IF cellRows(o, c) = {} THEN FNaN
            ELSE Fin(SumOver(df.rows, "amount", cellRows(o, c)), 1)
        \* .reindex(columns=[...], fill_value=0): a new column is filled with 0
        reindexed(o, c) == IF c \in present THEN pivot(o, c) ELSE Fin(0, 1)
    IN [index |-> owners,
        columns |-> forecast_categories,
        cell |-> [o \in Range(owners), c \in Range(forecast_categories)
                    |-> DivBy(FillNa0(reindexed(o, c)), Thousand)]]

(* ---------------------------------------------------------------------- *)
(* Data table                                                              *)
(* ---------------------------------------------------------------------- *)
FormattedRow(r, symbol) ==
    [r EXCEPT !.w = Str(FormatPercent(r.w)),
              !.potential = Str(FormatCurrency(r.potential, symbol)),
              !.amount = Str(FormatCurrency(r.amount, symbol))]

DataTableFrame(df, symbol) ==
    [df EXCEPT !.rows = [i \in 1..Len(df.rows) |-> FormattedRow(df.rows[i], symbol)]]

\* a numeric column of the frame holds display strings
HoldsStrings(df, cols) ==
    \E i \in Rows(df) : \E c \in cols : df.rows[i][c].kind = "str"

(* ---------------------------------------------------------------------- *)
(* The script                                                              *)
(* ---------------------------------------------------------------------- *)
\* an order in which the data table section runs right after the filter
ScriptOrderTableFirst ==
    <<"load", "filter", "table", "insights", "kpi", "chart1", "chart2", "chart3">>

\* the sections of app.py in the order the script executes them
ScriptOrder ==
    <<"load", "filter", "insights", "kpi", "chart1", "chart2", "chart3", "table">>

StepIndex(step) == CHOOSE k \in 1..Len(ScriptOrder) : ScriptOrder[k] = step

After(step) ==
    IF StepIndex(step) = Len(ScriptOrder) THEN "done"
    ELSE ScriptOrder[StepIndex(step) + 1]

NoError == [type |-> "none", at |-> "none"]
NoKpi == [count |-> 0, total_potential |-> 0, total_model |-> 0,
          potential_text |-> "", model_text |-> ""]
NoCatQtr == [index |-> <<>>, columns |-> <<>>, cell |-> <<>>]
NoCatComp == [index |-> <<>>, cell |-> <<>>]
NoRun == [valid |-> FALSE, evalData |-> EmptyFrame, shown |-> <<>>, now |-> 0]

inputVars == <<sheet, hasQuarterCol, confidence_threshold, selected_categories,
               selected_strengths, currency_symbol, now>>
insightVars == <<insights, shown, evalData>>
chartVars == <<cat_qtr, quarter_totals, cat_comp, percent, labels, rep_cat>>

\* Sheets the model starts from.  A sheet without a Quarter column may hold
\* anything in Close Date, line 37 coerces it.  In a sheet that carries its
\* own Quarter column line 37 does not run, and the model takes Close Date
\* as the datetime column read_excel makes of date cells and blanks (at
\* least one date); other contents of that column are not modelled.
CloseDateColumnOk(sh, hasQ) ==
    hasQ => /\ \A i \in 1..Len(sh) : sh[i].close.kind # "text"
            /\ \E i \in 1..Len(sh) : sh[i].close.kind = "date"

Init ==
    /\ sheet \in Sheets
    /\ hasQuarterCol \in BOOLEAN
    /\ CloseDateColumnOk(sheet, hasQuarterCol)
    /\ confidence_threshold \in Thresholds
    /\ selected_categories \in CategoryChoices
    /\ selected_strengths \in StrengthChoices
    /\ currency_symbol \in currency_symbol_map
    /\ now = 0
    /\ pc = ScriptOrder[1]
    /\ err = NoError
    /\ data = EmptyFrame
    /\ insights = <<>>
    /\ shown = <<>>
    /\ evalData = EmptyFrame
    /\ kpi = NoKpi
    /\ cat_qtr = NoCatQtr
    /\ quarter_totals = <<>>
    /\ cat_comp = NoCatComp
    /\ percent = <<>>
    /\ labels = <<>>
    /\ rep_cat = NoCatQtr
    /\ prevRun = NoRun

\* an uncaught exception ends the run
Raise(type, step) ==
    /\ pc' = "crashed"
    /\ err' = [type |-> type, at |-> step]

\* lines 27-38
LoadData ==
    /\ pc = "load"
    /\ data' = load_data(sheet, hasQuarterCol)
    /\ pc' = After("load")
    /\ UNCHANGED <<inputVars, err, insightVars, kpi, chartVars, prevRun>>

\* lines 40-45
ApplyFilters ==
    /\ pc = "filter"
    /\ IF data.dstrength = "object"
       THEN /\ data' = ApplyFiltersFrame(data, confidence_threshold,
                                         selected_categories, selected_strengths)
            /\ pc' = After("filter")
            /\ UNCHANGED err
       ELSE \* the .str accessor exists on a column of strings only
            /\ Raise("AttributeError", "filter")
            /\ UNCHANGED data
    /\ UNCHANGED <<inputVars, insightVars, kpi, chartVars, prevRun>>

\* lines 47-61
AIInsights ==
    /\ pc = "insights"
    /\ evalData' = data
    /\ IF data.dcat = "object"
       THEN /\ insights' = InsightList(data.rows, now)
            /\ shown' = Written(insights')
            /\ pc' = After("insights")
            /\ UNCHANGED err
       ELSE /\ Raise("AttributeError", "insights")
            /\ UNCHANGED <<insights, shown>>
    /\ UNCHANGED <<inputVars, data, kpi, chartVars, prevRun>>

\* lines 63-70
KPISummary ==
    /\ pc = "kpi"
    /\ LET total_potential == ColumnSum(data, "potential")
           total_model == ColumnSum(data, "amount")
       IN kpi' = [count |-> Len(data.rows),
                  total_potential |-> total_potential,
                  total_model |-> total_model,
                  potential_text |->
                      FormatCurrency(Num(total_potential), currency_symbol),
                  model_text |->
                      FormatCurrency(Num(total_model), currency_symbol)]
    /\ pc' = After("kpi")
    /\ UNCHANGED <<inputVars, err, data, insightVars, chartVars, prevRun>>

\* lines 72-99
Chart1 ==
    /\ pc = "chart1"
    /\ cat_qtr' = CatQtr(data)
    /\ quarter_totals' = QuarterTotals(data, cat_qtr'.columns)
    /\ pc' = After("chart1")
    /\ UNCHANGED <<inputVars, err, data, insightVars, kpi, cat_comp, percent,
                   labels, rep_cat, prevRun>>

\* lines 101-127
Chart2 ==
    /\ pc = "chart2"
    /\ cat_comp' = CatComp(data)
    /\ percent' = Percent(cat_comp')
    /\ labels' = PercentLabels(percent', cat_comp'.index)
    /\ pc' = After("chart2")
    /\ UNCHANGED <<inputVars, err, data, insightVars, kpi, cat_qtr,
                   quarter_totals, rep_cat, prevRun>>

\* lines 129-147
Chart3 ==
    /\ pc = "chart3"
    /\ rep_cat' = RepCat(data)
    /\ pc' = After("chart3")
    /\ UNCHANGED <<inputVars, err, data, insightVars, kpi, cat_qtr,
                   quarter_totals, cat_comp, percent, labels, prevRun>>

\* lines 149-157
DataTable ==
    /\ pc = "table"
    /\ data' = DataTableFrame(data, currency_symbol)
    /\ pc' = After("table")
    /\ UNCHANGED <<inputVars, err, insightVars, kpi, chartVars, prevRun>>

\* Streamlit runs the script again from the top when a widget changes (here
\* the currency or the confidence slider); the frame, the lists and the views
\* of the run before are gone, load_data hands out a fresh copy of the cached
\* sheet
Rerun ==
    /\ pc \in {"done", "crashed"}
    /\ currency_symbol' \in currency_symbol_map
    /\ confidence_threshold' \in Thresholds
    /\ now' \in now..MaxNow
    /\ prevRun' = [valid |-> shown # <<>>, evalData |-> evalData,
                   shown |-> shown, now |-> now]
    /\ pc' = ScriptOrder[1]
    /\ err' = NoError
    /\ data' = EmptyFrame
    /\ insights' = <<>>
    /\ shown' = <<>>
    /\ evalData' = EmptyFrame
    /\ kpi' = NoKpi
    /\ cat_qtr' = NoCatQtr
    /\ quarter_totals' = <<>>
    /\ cat_comp' = NoCatComp
    /\ percent' = <<>>
    /\ labels' = <<>>
    /\ rep_cat' = NoCatQtr
    /\ UNCHANGED <<sheet, hasQuarterCol, selected_categories, selected_strengths>>

Next ==
    \/ LoadData
    \/ ApplyFilters
    \/ AIInsights
    \/ KPISummary
    \/ Chart1
    \/ Chart2
    \/ Chart3
    \/ DataTable
    \/ Rerun

Spec == Init /\ [][Next]_vars

(* ---------------------------------------------------------------------- *)
(* Vocabulary of the properties                                            *)
(* ---------------------------------------------------------------------- *)
MsgUnderForecast == "under-forecast"
NumericCols == {"w", "potential", "amount"}

\* the frame line 33 to 38 hand to the filter
Loaded == load_data(sheet, hasQuarterCol)

\* every view is computed and the frame still holds numbers
ViewsReady == pc = "table"

\* the insight section has been executed in this run
InsightsRan == shown # <<>> \/ (pc = "crashed" /\ err.at = "insights")

\* the value of a view cell with the division by 1000 undone
Undo(x) == (x.num * Thousand) \div x.den

RECURSIVE CellSum(_, _)
CellSum(f, D) ==
    IF D = {} THEN 0
    ELSE LET d == CHOOSE e \in D : TRUE
         IN (IF f[d].kind = "fin" THEN Undo(f[d]) ELSE 0) + CellSum(f, D \ {d})

CatCompAmounts == [c \in DOMAIN cat_comp.cell |-> cat_comp.cell[c].amount]

\* sum of Model Amount over the rows of a sequence, optionally only those
\* with a Quarter, an Opportunity Owner, a Close Date
RECURSIVE AmountWhere(_, _, _, _)
AmountWhere(rows, needQuarter, needOwner, needDate) ==
    IF rows = <<>> THEN 0
    ELSE LET r == Head(rows)
             counts == /\ needQuarter => ~r.quarter.na
                       /\ needOwner => ~r.owner.na
                       /\ needDate => r.close.kind = "date"
         IN (IF counts THEN r.amount.v ELSE 0)
            + AmountWhere(Tail(rows), needQuarter, needOwner, needDate)

IsSubsequence(s, t) ==
    \E pick \in SUBSET (1..Len(t)) :
        /\ Cardinality(pick) = Len(s)
        /\ \A k \in 1..Len(s) :
              s[k] = t[CHOOSE i \in pick : Cardinality({j \in pick : j < i}) = k - 1]

(* ---------------------------------------------------------------------- *)
(* C1                                                                      *)
(* ---------------------------------------------------------------------- *)
MeetsAllThree(r) ==
    /\ r.w.kind = "num" /\ r.w.v >= confidence_threshold
    /\ ~r.cat.na /\ r.cat.s \in selected_categories
    /\ ~r.strength.na /\ RStrip(LStrip(r.strength.s)) \in selected_strengths

\* C1: for every record set, threshold and selections the filter step raises
\* no error and leaves exactly the loaded records, in input order, that
\* have a weighting at or above the threshold, a selected category and a
\* selected trimmed strength; a record with one of the three cells missing
\* is excluded.
C1_FilterExact ==
    /\ ~(pc = "crashed" /\ err.at = "filter")
    /\ pc = "insights" => data.rows = SelectSeq(Loaded.rows, MeetsAllThree)

(* ---------------------------------------------------------------------- *)
(* C2                                                                      *)
(* ---------------------------------------------------------------------- *)
\* C2 as stated: for each of the four groupings the group sums of Model
\* Amount add up to the sum over the whole filtered set, also when records
\* lack a quarter or an owner.
C2_SumsConserved ==
    ViewsReady =>
        LET total == AmountWhere(data.rows, FALSE, FALSE, FALSE)
        IN /\ CellSum(cat_qtr.cell, DOMAIN cat_qtr.cell) = total
           /\ CellSum(quarter_totals, DOMAIN quarter_totals) = total
           /\ CellSum(CatCompAmounts, DOMAIN CatCompAmounts) = total
           /\ CellSum(rep_cat.cell, DOMAIN rep_cat.cell) = total

\* C2 amended: for each grouping the group sums of Model Amount add up to
\* the sum over the filtered records whose key of that grouping is present;
\* a record whose Quarter cell is NaN is in no group of the two views keyed
\* by quarter, one whose owner is NaN in no group of the owner view.
C2_SumsConservedOverKeyedRecords ==
    ViewsReady =>
        /\ CellSum(cat_qtr.cell, DOMAIN cat_qtr.cell)
              = AmountWhere(data.rows, TRUE, FALSE, FALSE)
        /\ CellSum(quarter_totals, DOMAIN quarter_totals)
              = AmountWhere(data.rows, TRUE, FALSE, FALSE)
        /\ CellSum(CatCompAmounts, DOMAIN CatCompAmounts)
              = AmountWhere(data.rows, FALSE, FALSE, FALSE)
        /\ CellSum(rep_cat.cell, DOMAIN rep_cat.cell)
              = AmountWhere(data.rows, FALSE, TRUE, FALSE)

\* the views are computed over two filtered records of which one lacks an
\* owner and one a quarter, and the views keyed by them are not empty
C2_Witness ==
    /\ ViewsReady
    /\ Len(data.rows) = 2
    /\ \E i \in Rows(data) : data.rows[i].owner.na
    /\ \E i \in Rows(data) : data.rows[i].quarter.na
    /\ CellSum(cat_qtr.cell, DOMAIN cat_qtr.cell) > 0
    /\ CellSum(rep_cat.cell, DOMAIN rep_cat.cell) > 0

(* ---------------------------------------------------------------------- *)
(* C3                                                                      *)
(* ---------------------------------------------------------------------- *)
\* C3: every value of the per-category ratio view is a number in [0, 999],
\* and the view has no entry for a category whose summed Potential Amount
\* is 0; no NaN or infinite ratio is plotted or labelled.
C3_RatioBounded ==
    cat_comp.index # <<>> =>
        \A c \in DOMAIN percent :
            /\ percent[c].kind = "fin"
            /\ percent[c].num >= 0
            /\ percent[c].num <= 999 * percent[c].den
            /\ cat_comp.cell[c].potential.num # 0

(* ---------------------------------------------------------------------- *)
(* C4                                                                      *)
(* ---------------------------------------------------------------------- *)
\* C4: when the filter yields no record the insight section raises no
\* error, no rule fires and exactly the fallback message is written.
C4_EmptyGivesFallback ==
    (InsightsRan /\ evalData.rows = <<>>) =>
        /\ err.at # "insights"
        /\ insights = <<>>
        /\ shown = <<MsgNoAnomalies>>

(* ---------------------------------------------------------------------- *)
(* C5                                                                      *)
(* ---------------------------------------------------------------------- *)
ScenarioRow ==
    Row(Num(90), Txt(Pipeline), Txt(Strong), DateCell(120), Lbl("Ann"),
        Num(1000), Num(100))

RuleOrder == <<MsgUnderForecast, MsgHighConfidence, MsgPipelineHeavy, MsgFarFuture>>

\* C5: for the single record with weighting 0.9, potential 1000, model
\* amount 100, category Pipeline and a close date ten years ahead, with
\* threshold 0 and everything selected, the four messages under-forecast,
\* high-confidence, pipeline-heavy, stale close dates are written in that
\* order; in general the written rule messages follow that order.
C5_FourMessagesInOrder ==
    /\ (/\ sheet = <<ScenarioRow>>
        /\ confidence_threshold = 0
        /\ selected_categories = Range(forecast_categories)
        /\ selected_strengths = Range(model_strengths)
        /\ now = 0
        /\ InsightsRan) => shown = RuleOrder
    /\ (shown # <<>> /\ shown # <<MsgNoAnomalies>>) => IsSubsequence(shown, RuleOrder)

(* ---------------------------------------------------------------------- *)
(* C6                                                                      *)
(* ---------------------------------------------------------------------- *)
\* this run and the run before it evaluated the rules on the same records
SameRecordsTwice ==
    /\ prevRun.valid
    /\ shown # <<>>
    /\ prevRun.evalData = evalData

Without(s, m) == SelectSeq(s, LAMBDA x : x # m)

ClosesAfter(rows, t) ==
    \E i \in 1..Len(rows) :
        rows[i].close.kind = "date" /\ rows[i].close.m > t + FarFutureMonths

\* C6 as stated: two evaluations over the same filtered record set, at any
\* two moments, write the identical sequence of messages.
C6_SameMessagesAtAnyTime ==
    SameRecordsTwice => shown = prevRun.shown

\* C6 amended: two evaluations over the same filtered record set agree on
\* the high-confidence and the pipeline-heavy message whatever the two
\* moments are; the far-future message depends on the moment as well, being
\* written exactly when some close date lies more than six months after
\* the moment of the evaluation, and the fallback is written exactly when
\* no rule message is.
C6_OnlyFarFutureFollowsTheClock ==
    SameRecordsTwice =>
        LET mine == Without(Without(shown, MsgFarFuture), MsgNoAnomalies)
            before == Without(Without(prevRun.shown, MsgFarFuture), MsgNoAnomalies)
        IN /\ mine = before
           /\ MsgFarFuture \in Range(shown) <=> ClosesAfter(evalData.rows, now)
           /\ MsgFarFuture \in Range(prevRun.shown)
                 <=> ClosesAfter(evalData.rows, prevRun.now)
           /\ shown = <<MsgNoAnomalies>> <=> Without(shown, MsgNoAnomalies) = <<>>

\* the same records evaluated at two moments with different output
C6_Witness ==
    /\ SameRecordsTwice
    /\ evalData.rows # <<>>
    /\ prevRun.now < now
    /\ MsgFarFuture \in Range(prevRun.shown)
    /\ MsgFarFuture \notin Range(shown)

(* ---------------------------------------------------------------------- *)
(* C7                                                                      *)
(* ---------------------------------------------------------------------- *)
\* C7: in every run the percent and currency columns are turned into
\* display strings only after the filter, the insight rules, the summary
\* metrics and every aggregation have run; while any of them is still to
\* run (or the run has stopped on an error) the frame holds numbers only.
C7_FormattingComesLast ==
    HoldsStrings(data, NumericCols) =>
        /\ pc = "done"
        /\ shown # <<>>
        /\ kpi.count = Len(data.rows)
        /\ cat_qtr.index # <<>>
        /\ cat_comp.index # <<>>
        /\ rep_cat.columns # <<>>

\* a finished run whose frame holds the display strings
C7_Witness ==
    /\ pc = "done"
    /\ \E i \in Rows(data) :
          /\ data.rows[i].w.kind = "str"
          /\ data.rows[i].potential.kind = "str"
          /\ data.rows[i].amount.kind = "str"

(* ---------------------------------------------------------------------- *)
(* C8                                                                      *)
(* ---------------------------------------------------------------------- *)
\* C8: a filtered record without a usable close date is counted in the
\* opportunity count, the totals, the by-category and the by-owner
\* aggregates, and is in no group of the category x quarter table or of
\* the quarter totals: every quarter column is the quarter of some dated
\* record, none is a placeholder label.
C8_UndatedOutsideQuarterViews ==
    (ViewsReady /\ \E i \in Rows(data) : data.rows[i].close.kind # "date") =>
        /\ kpi.count = Len(data.rows)
        /\ kpi.total_model = AmountWhere(data.rows, FALSE, FALSE, FALSE)
        /\ CellSum(CatCompAmounts, DOMAIN CatCompAmounts)
              = AmountWhere(data.rows, FALSE, FALSE, FALSE)
        /\ CellSum(rep_cat.cell, DOMAIN rep_cat.cell)
              = AmountWhere(data.rows, FALSE, TRUE, FALSE)
        /\ \A k \in 1..Len(cat_qtr.columns) :
              \E i \in Rows(data) :
                  /\ data.rows[i].close.kind = "date"
                  /\ QuarterLabel(data.rows[i].close.m) = cat_qtr.columns[k]
        /\ CellSum(cat_qtr.cell, DOMAIN cat_qtr.cell)
              = AmountWhere(data.rows, FALSE, FALSE, TRUE)
        /\ CellSum(quarter_totals, DOMAIN quarter_totals)
              = AmountWhere(data.rows, FALSE, FALSE, TRUE)

(* ---------------------------------------------------------------------- *)
(* C9                                                                      *)
(* ---------------------------------------------------------------------- *)
IsZero(x) == x.kind = "fin" /\ x.num = 0

AbsentCategories ==
    {c \in Range(forecast_categories) :
        \A i \in Rows(data) : data.rows[i].cat.na \/ data.rows[i].cat.s # c}

\* C9: the three category-keyed views list the categories in the order
\* Pipeline, Best Case, Probable, Commit, and a category without a record
\* in the filtered set has the number 0 in every cell, never NaN.
C9_CanonicalOrderZeroFilled ==
    ViewsReady =>
        /\ cat_qtr.index = forecast_categories
        /\ cat_comp.index = forecast_categories
        /\ rep_cat.columns = forecast_categories
        /\ \A c \in AbsentCategories :
              /\ \A q \in Range(cat_qtr.columns) : IsZero(cat_qtr.cell[c, q])
              /\ IsZero(cat_comp.cell[c].potential)
              /\ IsZero(cat_comp.cell[c].amount)
              /\ \A o \in Range(rep_cat.index) : IsZero(rep_cat.cell[o, c])

(* ---------------------------------------------------------------------- *)
(* C10                                                                     *)
(* ---------------------------------------------------------------------- *)
ExactlyPipeline(rows) ==
    {i \in 1..Len(rows) : ~rows[i].cat.na /\ rows[i].cat.s = Pipeline}

TopWeightingIsLimit(rows) ==
    /\ \E i \in 1..Len(rows) :
          rows[i].w.kind = "num" /\ rows[i].w.v = HighConfidenceLimit
    /\ \A i \in 1..Len(rows) :
          rows[i].w.kind = "num" => rows[i].w.v <= HighConfidenceLimit

\* C10: on every record set the filter produces, the pipeline-heavy
\* message is written if and only if the records whose category is exactly
\* "Pipeline" are strictly more than half of the records (not when they
\* are exactly half), and the high-confidence message is not written when
\* the largest weighting is exactly 0.8.
C10_StrictComparisons ==
    shown # <<>> =>
        /\ MsgPipelineHeavy \in Range(shown)
              <=> 2 * Cardinality(ExactlyPipeline(evalData.rows)) > Len(evalData.rows)
        /\ TopWeightingIsLimit(evalData.rows) => MsgHighConfidence \notin Range(shown)

\* the rules ran on two records, exactly one of them Pipeline, the largest
\* weighting being 0.8
C10_Witness ==
    /\ shown # <<>>
    /\ Len(evalData.rows) = 2
    /\ Cardinality(ExactlyPipeline(evalData.rows)) = 1
    /\ TopWeightingIsLimit(evalData.rows)
    /\ MsgPipelineHeavy \notin Range(shown)
    /\ MsgHighConfidence \notin Range(shown)

====
